---- MODULE Spec2Model ----
(***************************************************************************)
(* Interview assistant: the scoring engine (scoring_engine.py), the        *)
(* scorecard API and PDF websocket service built on it (scorecard_api.py,  *)
(* main_server.py) and the question-suggestion websocket session           *)
(* (question_generation/main.py).                                          *)
(*                                                                         *)
(* Python values are modelled as follows.  An optional value is a tuple:   *)
(* None is <<>> and a present value v is <<v>>.  The outcome of a call is  *)
(* a record that either carries the returned value or the exception that   *)
(* was raised (its class and message).  Text whose characters matter       *)
(* (transcripts, URLs) is a sequence of one-character strings.             *)
(***************************************************************************)
EXTENDS Integers, Sequences, FiniteSets, TLC

VARIABLES
    now,                \* wall clock, in seconds (datetime.now())
    caller,             \* scoring entry point whose outcome is pending, or "idle"
    call_transcript,    \* transcript handed to that entry point
    llm_behaviour,      \* what the LLM collaborator does on that call
    llm_calls,          \* chat.completions.create calls made by that entry point
    pdf_behaviour,      \* what the PDF renderer does on that call, if it has one
    call_options,       \* (save_files, include_pdf_link_in_html) of a generate_scorecard call
    score_outcome,      \* outcome of generate_score
    scorecard_outcome,  \* outcome of generate_scorecard
    pdf_ws_sent,        \* messages sent by the PDF service's /ws handler
    files,              \* paths of the files written during the current second
    TRANSCRIPT,         \* question service: the transcript window (module global)
    CV,                 \* question service: the candidate profile (module global)
    JOB_OFFER,          \* question service: the job offer (module global)
    COMPANY_VALUES,     \* question service: the company values (module global)
    CANDIDATE_INFOS,    \* question service: the last CANDIDATE_INFOS payload
    conn,               \* question service: each connection's state
    sent,               \* question service: messages sent on each connection
    chunks_seen,        \* question service: TRANSCRIPT_CHUNK events handled
    last_extract,       \* question service: the last extract_linkedin call
    last_event,         \* question service: the inbound message last read
    model_invokes       \* question service: model.invoke calls made

scoring_vars == <<now, caller, call_transcript, llm_behaviour, llm_calls, pdf_behaviour,
                  call_options,
                  score_outcome, scorecard_outcome, pdf_ws_sent, files>>

session_vars == <<TRANSCRIPT, CV, JOB_OFFER, COMPANY_VALUES, CANDIDATE_INFOS,
                  conn, sent, chunks_seen, last_extract, last_event, model_invokes>>

vars == <<scoring_vars, session_vars>>

-----------------------------------------------------------------------------
(* Python plumbing *)

None == <<>>
Some(v) == <<v>>

Return(v) == [raised |-> FALSE, type |-> "", msg |-> "", value |-> Some(v)]
Raise(type, msg) == [raised |-> TRUE, type |-> type, msg |-> msg, value |-> None]

\* s[:n] and s[n:] for n >= 0
SliceTo(s, n) == SubSeq(s, 1, IF n < Len(s) THEN n ELSE Len(s))
SliceFrom(s, n) == SubSeq(s, n + 1, Len(s))

Whitespace == {" ", "\t", "\n"}

\* str.strip() leaves nothing exactly when every character is whitespace
StripIsEmpty(text) == \A i \in 1..Len(text) : text[i] \in Whitespace

\* len(text.split()): the number of maximal runs of non-whitespace characters
WordCount(text) ==
    Cardinality({i \in 1..Len(text) :
        /\ text[i] \notin Whitespace
        /\ (i = 1 \/ text[i - 1] \in Whitespace)})

-----------------------------------------------------------------------------
(* The scoring rubric *)

SCORING_RUBRIC == <<
    [criterion |-> "Analytical thinking and problem solving",
     mark_poor |-> 0, mark_basic |-> 2, mark_advanced |-> 4, max_score |-> 4],
    [criterion |-> "Mastering analytical toolset (Python, ...)",
     mark_poor |-> 0, mark_basic |-> 2, mark_advanced |-> 4, max_score |-> 4],
    [criterion |-> "Communication with stakeholders",
     mark_poor |-> 0, mark_basic |-> 2, mark_advanced |-> 4, max_score |-> 4],
    [criterion |-> "Ambition / High standards",
     mark_poor |-> 0, mark_basic |-> 1, mark_advanced |-> 2, max_score |-> 2],
    [criterion |-> "Curiosity",
     mark_poor |-> 0, mark_basic |-> 1, mark_advanced |-> 2, max_score |-> 2],
    [criterion |-> "Honesty / Integrity",
     mark_poor |-> 0, mark_basic |-> 1, mark_advanced |-> 2, max_score |-> 2],
    [criterion |-> "Work ethic",
     mark_poor |-> 0, mark_basic |-> 1, mark_advanced |-> 2, max_score |-> 2] >>

\* the number of score objects the engine insists on
ExpectedScores == 7

\* max_score given to a criterion name that is not in the rubric
DefaultMaxScore == 4

\* the constant max_score of generate_score
MaxTotal == 20

required_fields == <<"criterion", "level", "mark", "justification">>

Placeholder == "Feedback generation pending"

\* the loop over SCORING_RUBRIC that stops at the first exact match
MaxScoreFor(criterion_name) ==
    LET hits == {i \in 1..Len(SCORING_RUBRIC) :
                    SCORING_RUBRIC[i].criterion = criterion_name}
    IN  IF hits = {} THEN DefaultMaxScore
        ELSE SCORING_RUBRIC[CHOOSE i \in hits : \A j \in hits : i <= j].max_score

-----------------------------------------------------------------------------
(* analyze_transcript_with_llm                                             *)
(*                                                                         *)
(* llm is what the LLM collaborator does on this call:                     *)
(*   has_key  - OPENAI_API_KEY is set (get_openai_client succeeds)         *)
(*   call_ok  - chat.completions.create returns a reply                    *)
(*   reply    - the reply's content, as json.loads sees it:                *)
(*     shape    "invalid_json" | "not_dict" | "no_scores" |                *)
(*              "scores_not_list" | "scores_list"                          *)
(*     scores   the list under "scores"; an element is                     *)
(*              [kind: "dict" | "number" | "string", keys: the required    *)
(*               fields it carries, criterion, level, mark, justification, *)
(*               mark_is_number: FALSE when "mark" holds null]             *)
(*     feedback [kind: "missing" | "not_dict" | "dict", positive,          *)
(*               negative], each of positive and negative being            *)
(*              [kind: "missing" | "not_list" | "list", items]             *)

\* lines 244-247: the first required field the score object lacks, if any
MissingFields(score) ==
    SelectSeq(required_fields, LAMBDA field : field \notin score.keys)

\* ReconcileMark with the 0/2/4 scale applied to every criterion
ReconcileMark_IgnoresMaxScore(level, mark, max_score) ==
    IF level = "Poor" THEN 0
    ELSE IF level = "Basic" THEN 2
    ELSE IF level = "Advanced" THEN 4
    ELSE mark

\* lines 261-272: the mark after the level/mark consistency check
ReconcileMark(level, mark, max_score) ==
    IF level = "Poor" /\ mark # 0 THEN 0
    ELSE IF level = "Basic" THEN
        IF max_score = 4 /\ mark # 2 THEN 2
        ELSE IF max_score = 2 /\ mark # 1 THEN 1
        ELSE mark
    ELSE IF level = "Advanced" THEN
        IF max_score = 4 /\ mark # 4 THEN 4
        ELSE IF max_score = 2 /\ mark # 2 THEN 2
        ELSE mark
    ELSE mark

\* lines 249-272: one score object after reconciliation (mutated in place).
\* A null mark differs from every number it is compared with, as -1 does, so
\* it is overwritten at each level the rubric knows and kept at any other.
ReconcileScore(score) ==
    LET max_score == MaxScoreFor(score.criterion) IN
    IF score.mark_is_number
    THEN [score EXCEPT !.mark = ReconcileMark(score.level, score.mark, max_score)]
    ELSE IF score.level \in {"Poor", "Basic", "Advanced"}
    THEN [score EXCEPT !.mark = ReconcileMark(score.level, -1, max_score),
                       !.mark_is_number = TRUE]
    ELSE score

\* ValidateScores with a non-dict element skipped instead of rejected
RECURSIVE ValidateScores_SkipsNonDict(_, _)
ValidateScores_SkipsNonDict(scores, i) ==
    IF i > Len(scores) THEN Return(scores)
    ELSE LET score == scores[i] IN
        IF score.kind # "dict"
        THEN ValidateScores_SkipsNonDict(scores, i + 1)
        ELSE IF MissingFields(score) # <<>>
        THEN Raise("ValueError", "Score " \o ToString(i - 1)
                    \o " missing required field: " \o Head(MissingFields(score)))
        ELSE ValidateScores_SkipsNonDict([scores EXCEPT ![i] = ReconcileScore(score)], i + 1)

\* ValidateScores naming the offending object by its position counted from 1
RECURSIVE ValidateScores_CountsFromOne(_, _)
ValidateScores_CountsFromOne(scores, i) ==
    IF i > Len(scores) THEN Return(scores)
    ELSE LET score == scores[i] IN
        IF score.kind # "dict"
        THEN Raise("ValueError", "Score " \o ToString(i)
                    \o " should be a dictionary with fields, got " \o score.kind)
        ELSE IF MissingFields(score) # <<>>
        THEN Raise("ValueError", "Score " \o ToString(i)
                    \o " missing required field: " \o Head(MissingFields(score)))
        ELSE ValidateScores_CountsFromOne([scores EXCEPT ![i] = ReconcileScore(score)], i + 1)

\* lines 233-272: the loop over the score objects, from index i (1-based here,
\* i - 1 in the messages); the first offending object raises
RECURSIVE ValidateScores(_, _)
ValidateScores(scores, i) ==
    IF i > Len(scores) THEN Return(scores)
    ELSE LET score == scores[i] IN
        IF score.kind # "dict"
        THEN Raise("ValueError", "Score " \o ToString(i - 1)
                    \o " should be a dictionary with fields, got " \o score.kind)
        ELSE IF MissingFields(score) # <<>>
        THEN Raise("ValueError", "Score " \o ToString(i - 1)
                    \o " missing required field: " \o Head(MissingFields(score)))
        ELSE ValidateScores([scores EXCEPT ![i] = ReconcileScore(score)], i + 1)

\* FixFeedbackSide keeping no more than two items
FixFeedbackSide_KeepsTwo(side) ==
    LET items == IF side.kind = "list" THEN side.items ELSE <<>>
    IN  IF Len(items) < 2
        THEN items \o [k \in 1..(2 - Len(items)) |-> Placeholder]
        ELSE SubSeq(items, 1, 2)

\* lines 212-220 and 223-231: one side of the feedback, padded to two items
FixFeedbackSide(side) ==
    LET items == IF side.kind = "list" THEN side.items ELSE <<>>
    IN  IF Len(items) < 2
        THEN items \o [k \in 1..(2 - Len(items)) |-> Placeholder]
        ELSE items

\* FixFeedback with an empty mapping's worth of feedback as the default
FixFeedback_EmptyDefault(feedback) ==
    IF feedback.kind # "dict"
    THEN [positive |-> <<>>, negative |-> <<>>]
    ELSE [positive |-> FixFeedbackSide(feedback.positive),
          negative |-> FixFeedbackSide(feedback.negative)]

\* lines 192-231: the feedback the result carries
FixFeedback(feedback) ==
    IF feedback.kind # "dict"
    THEN [positive |-> <<Placeholder, Placeholder>>,
          negative |-> <<Placeholder, Placeholder>>]
    ELSE [positive |-> FixFeedbackSide(feedback.positive),
          negative |-> FixFeedbackSide(feedback.negative)]

\* ValidateReply with the length check relaxed to "at least 7"
ValidateReply_AcceptsLongerLists(reply) ==
    IF reply.shape = "invalid_json"
    THEN Raise("JSONDecodeError", "Expecting value")
    ELSE IF reply.shape # "scores_list"
    THEN Raise("ValueError", "Invalid response format")
    ELSE IF Len(reply.scores) < ExpectedScores
    THEN Raise("ValueError", "Expected 7 scores, got " \o ToString(Len(reply.scores)))
    ELSE IF reply.scores[1].kind = "number"
    THEN Raise("ValueError", "Invalid response format: 'scores' should be a list of objects")
    ELSE LET checked == ValidateScores(reply.scores, 1) IN
        IF checked.raised THEN checked
        ELSE Return([scores |-> checked.value[1],
                     feedback |-> FixFeedback(reply.feedback)])

\* lines 154-275: validation and repair of the parsed reply
ValidateReply(reply) ==
    IF reply.shape = "invalid_json"
    THEN Raise("JSONDecodeError", "Expecting value")
    ELSE IF reply.shape = "not_dict"
    THEN Raise("ValueError", "Invalid response format: expected dict, got list")
    ELSE IF reply.shape = "no_scores"
    THEN Raise("ValueError", "Invalid response format: 'scores' key not found")
    ELSE IF reply.shape = "scores_not_list"
    THEN Raise("ValueError", "Invalid response format: 'scores' should be a list")
    ELSE IF Len(reply.scores) # ExpectedScores
    THEN Raise("ValueError", "Expected 7 scores, got " \o ToString(Len(reply.scores)))
    ELSE IF reply.scores[1].kind = "number"
    THEN Raise("ValueError", "Invalid response format: 'scores' should be a list of objects")
    ELSE LET checked == ValidateScores(reply.scores, 1) IN
        IF checked.raised THEN checked
        ELSE Return([scores |-> checked.value[1],
                     feedback |-> FixFeedback(reply.feedback)])

\* analyze_transcript_with_llm with a bare raise in its last except clause
analyze_transcript_with_llm_Reraises(transcript_text, llm) ==
    LET body ==
            IF ~llm.has_key
            THEN Raise("ValueError", "OPENAI_API_KEY not found. Please set it as an environment variable or in a .env file.")
            ELSE IF ~llm.call_ok
            THEN Raise("APIError", "Connection error.")
            ELSE ValidateReply(llm.reply)
    IN  IF ~body.raised THEN body
        ELSE IF body.type = "JSONDecodeError"
        THEN Raise("ValueError", "Failed to parse JSON response from OpenAI: " \o body.msg)
        ELSE body

\* lines 120-152 and 277-288: the call itself and the except clauses
analyze_transcript_with_llm(transcript_text, llm) ==
    LET body ==
            IF ~llm.has_key
            THEN Raise("ValueError", "OPENAI_API_KEY not found. Please set it as an environment variable or in a .env file.")
            ELSE IF ~llm.call_ok
            THEN Raise("APIError", "Connection error.")
            ELSE ValidateReply(llm.reply)
    IN  IF ~body.raised THEN body
        ELSE IF body.type = "JSONDecodeError"
        THEN Raise("ValueError", "Failed to parse JSON response from OpenAI: " \o body.msg)
        ELSE IF body.type = "ValueError" THEN body
        ELSE Raise("Exception", "Error calling OpenAI API: " \o body.msg)

\* the chat.completions.create calls analyze_transcript_with_llm makes
LLMCallsOf(llm) == IF llm.has_key THEN 1 ELSE 0

-----------------------------------------------------------------------------
(* Floating-point arithmetic (IEEE 754 binary64, round to nearest, ties to  *)
(* even), for the one float expression of generate_score, line 371.  A     *)
(* binary digit string is a sequence of 0s and 1s, most significant first. *)
(* A positive double in the making is [exp, bits]: 53 digits opening with  *)
(* a 1, standing for 0.b1 b2 ... b53 times 2^exp.                          *)

\* the digits of the significand of a double
Precision == 53

\* the binary digits of a natural number; none for 0
RECURSIVE NatBits(_)
NatBits(n) == IF n = 0 THEN <<>> ELSE Append(NatBits(n \div 2), n % 2)

\* the number a digit string of at most 30 digits stands for
RECURSIVE BitsValue(_)
BitsValue(bits) ==
    IF bits = <<>> THEN 0
    ELSE 2 * BitsValue(SubSeq(bits, 1, Len(bits) - 1)) + bits[Len(bits)]

\* long division: the digits found so far followed by the next count
\* digits after them of r / d, for 0 <= r < d, and whether anything but
\* zeros follows those
RECURSIVE FracBits(_, _, _, _)
FracBits(found, r, d, count) ==
    IF count = 0 THEN [bits |-> found, inexact |-> r # 0]
    ELSE FracBits(Append(found, (2 * r) \div d), (2 * r) % d, d, count - 1)

\* the digit string plus one, a digit longer when every digit was 1
RECURSIVE Increment(_)
Increment(bits) ==
    IF bits = <<>> THEN <<1>>
    ELSE IF bits[Len(bits)] = 0 THEN [bits EXCEPT ![Len(bits)] = 1]
    ELSE Append(Increment(SubSeq(bits, 1, Len(bits) - 1)), 0)

RECURSIVE LeadingZeros(_)
LeadingZeros(bits) ==
    IF bits = <<>> \/ bits[1] = 1 THEN 0 ELSE 1 + LeadingZeros(Tail(bits))

\* 0.bits times 2^exp, bits opening with a 1 and followed by more digits
\* exactly when inexact, rounded to Precision digits
RoundToDouble(exp, bits, inexact) ==
    LET padded == IF Len(bits) > Precision THEN bits
                  ELSE bits \o [k \in 1..(Precision + 1 - Len(bits)) |-> 0]
        kept == SubSeq(padded, 1, Precision)
        guard == padded[Precision + 1]
        sticky == inexact \/ \E k \in (Precision + 2)..Len(padded) : padded[k] = 1
        up == guard = 1 /\ (sticky \/ kept[Precision] = 1)
        raised == Increment(kept)
    IN  IF ~up THEN [exp |-> exp, bits |-> kept]
        ELSE IF Len(raised) = Precision THEN [exp |-> exp, bits |-> raised]
        ELSE [exp |-> exp + 1, bits |-> SubSeq(raised, 1, Precision)]

\* n / d for integers n > 0 and d > 0: the correctly rounded quotient
FloatQuotient(n, d) ==
    LET whole == NatBits(n \div d)
        division == FracBits(whole, n % d, d, Precision + 11)
        zeros == LeadingZeros(division.bits)
    IN  RoundToDouble(Len(whole) - zeros,
                      SubSeq(division.bits, zeros + 1, Len(division.bits)),
                      division.inexact)

\* long multiplication from the right: the digits of bits times k plus
\* carry, followed by the digits found so far
RECURSIVE TimesBits(_, _, _, _)
TimesBits(bits, k, carry, found) ==
    IF bits = <<>> THEN NatBits(carry) \o found
    ELSE TimesBits(SubSeq(bits, 1, Len(bits) - 1), k,
                   (bits[Len(bits)] * k + carry) \div 2,
                   <<(bits[Len(bits)] * k + carry) % 2>> \o found)

\* x * k for a positive double x and an integer k > 0 (itself a double)
FloatTimes(x, k) ==
    LET product == TimesBits(x.bits, k, 0, <<>>)
    IN  RoundToDouble(x.exp + Len(product) - Precision, product, FALSE)

\* a double as the state holds it: its sign, its exponent, and its
\* significand in two halves of 26 and 27 digits
Double(sign, x) ==
    [sign |-> sign, exp |-> x.exp,
     hi |-> BitsValue(SubSeq(x.bits, 1, 26)),
     lo |-> BitsValue(SubSeq(x.bits, 27, Precision))]

ZeroDouble == [sign |-> 0, exp |-> 0, hi |-> 0, lo |-> 0]

\* float(n) for an integer of at most 30 binary digits
FloatOfInt(n) ==
    IF n = 0 THEN ZeroDouble
    ELSE LET size == IF n < 0 THEN -n ELSE n
         IN  Double(IF n < 0 THEN -1 ELSE 1,
                    RoundToDouble(Len(NatBits(size)), NatBits(size), FALSE))

\* Percentage with the multiplication done first, the product being exact
Percentage_TimesFirst(total_score, max_score) ==
    FloatOfInt((total_score * 100) \div max_score)

\* line 371: total_score / max_score * 100, for an integer total_score
Percentage(total_score, max_score) ==
    IF total_score = 0 THEN ZeroDouble
    ELSE LET size == IF total_score < 0 THEN -total_score ELSE total_score
         IN  Double(IF total_score < 0 THEN -1 ELSE 1,
                    FloatTimes(FloatQuotient(size, max_score), 100))

-----------------------------------------------------------------------------
(* generate_score *)

\* line 368: sum() over the marks that are numbers
RECURSIVE SumMarks(_)
SumMarks(scores) ==
    IF scores = <<>> THEN 0 ELSE Head(scores).mark + SumMarks(Tail(scores))

\* line 368: sum() cannot add a null mark
SumRaises(scores) == \E i \in 1..Len(scores) : ~scores[i].mark_is_number

SumTypeError ==
    Raise("TypeError", "unsupported operand type(s) for +: 'int' and 'NoneType'")

\* lines 376-397: the display form of one score object
Category(score_item) ==
    [name |-> score_item.criterion,
     score |-> score_item.mark,
     max_score |-> MaxScoreFor(score_item.criterion),
     level |-> score_item.level,
     details |-> score_item.justification]

\* the totals that seven marks between -1 and 5 add up to
TotalsConsidered == (-ExpectedScores)..(5 * ExpectedScores)

\* line 371 for each of these totals, worked out once
PercentageOf == [total_score \in TotalsConsidered |-> Percentage(total_score, MaxTotal)]

\* lines 367-374 and 405-417, on the result of the analysis
ScoreData(transcript_text, analysis_result) ==
    LET scores == analysis_result.scores
        total_score == SumMarks(scores)
    IN  [overall_grade |-> ToString(total_score) \o "/" \o ToString(MaxTotal),
         total_score |-> total_score,
         max_score |-> MaxTotal,
         percentage |-> PercentageOf[total_score],
         categories |-> [i \in 1..Len(scores) |-> Category(scores[i])],
         scores |-> scores,
         feedback |-> analysis_result.feedback,
         transcript_length |-> Len(transcript_text),
         word_count |-> WordCount(transcript_text)]

\* generate_score with the total taken from the marks as the LLM sent them
generate_score_SumsSuppliedMarks(transcript_text, llm) ==
    LET analysis_result == analyze_transcript_with_llm(transcript_text, llm)
    IN  IF analysis_result.raised THEN analysis_result
        ELSE IF SumRaises(analysis_result.value[1].scores) THEN SumTypeError
        ELSE Return([ScoreData(transcript_text, analysis_result.value[1])
                        EXCEPT !.total_score = SumMarks(llm.reply.scores)])

\* lines 342-418: no check of transcript_text precedes the analysis, and
\* nothing catches what the analysis or the sum raises
generate_score(transcript_text, llm) ==
    LET analysis_result == analyze_transcript_with_llm(transcript_text, llm)
    IN  IF analysis_result.raised THEN analysis_result
        ELSE IF SumRaises(analysis_result.value[1].scores) THEN SumTypeError
        ELSE Return(ScoreData(transcript_text, analysis_result.value[1]))

\* the chat.completions.create calls generate_score makes
generate_score_llm_calls(transcript_text, llm) == LLMCallsOf(llm)

-----------------------------------------------------------------------------
(* create_html_output: what the report shows, section by section *)

\* create_html_output with the sections told apart by each item's max_score
create_html_output_SplitsByMaxScore(score_data) ==
    [final_grade |-> score_data.overall_grade,
     role_based_criteria |-> SelectSeq(score_data.categories, LAMBDA c : c.max_score = 4),
     cultural_fit_criteria |-> SelectSeq(score_data.categories, LAMBDA c : c.max_score # 4),
     positive_args |-> SliceTo(score_data.feedback.positive, 2),
     negative_args |-> SliceTo(score_data.feedback.negative, 2),
     pdf_download_link |-> None]

create_html_output(score_data) ==
    [final_grade |-> score_data.overall_grade,
     role_based_criteria |-> SliceTo(score_data.categories, 3),
     cultural_fit_criteria |-> SliceFrom(score_data.categories, 3),
     positive_args |-> SliceTo(score_data.feedback.positive, 2),
     negative_args |-> SliceTo(score_data.feedback.negative, 2),
     pdf_download_link |-> None]

-----------------------------------------------------------------------------
(* generate_scorecard *)

\* datetime.now().strftime("%Y%m%d_%H%M%S"), for a clock counting seconds
Strftime(clock) ==
    "20251116_1200" \o (IF clock < 10 THEN "0" ELSE "") \o ToString(clock)

ScorecardFailure(error_msg) ==
    Return([success |-> FALSE, error |-> Some(error_msg), html_content |-> None,
     html_path |-> None, pdf_path |-> None, pdf_bytes |-> None,
     timestamp |-> None, score_data |-> None])

\* ValueError and its subclasses, as the except clauses tell them apart
IsValueError(type) == type \in {"ValueError", "JSONDecodeError"}

\* ScorecardExcept without the catch-all clause
ScorecardExcept_ValueErrorOnly(exc) ==
    IF IsValueError(exc.type)
    THEN ScorecardFailure(exc.msg)
    ELSE exc

\* lines 206-230: the two except clauses; nothing is re-raised
ScorecardExcept(exc) ==
    IF IsValueError(exc.type)
    THEN ScorecardFailure(exc.msg)
    ELSE ScorecardFailure("Error processing transcript: " \o exc.msg)

\* ScorecardSuccess inserting the download link whenever the PDF was
\* rendered, whether or not its bytes were kept
ScorecardSuccess_LinksRenderedPdf(score_data, output_dir, save_files, include_pdf_link_in_html, pdf, timestamp) ==
    LET html_output == create_html_output(score_data)
        html_path == IF save_files
                     THEN Some(output_dir \o "/scorecard_" \o timestamp \o ".html")
                     ELSE None
        pdf_raised == pdf = "render_fails" \/ (pdf = "write_fails" /\ save_files)
        pdf_path == IF save_files /\ ~pdf_raised
                    THEN Some(output_dir \o "/scorecard_" \o timestamp \o ".pdf")
                    ELSE None
        pdf_bytes == IF ~pdf_raised THEN Some("%PDF") ELSE None
        pdf_generated == pdf # "render_fails"
        linked == IF include_pdf_link_in_html /\ pdf_generated
                  THEN [html_output EXCEPT !.pdf_download_link =
                            Some("scorecard_" \o timestamp \o ".pdf")]
                  ELSE html_output
    IN  Return([success |-> TRUE, error |-> None, html_content |-> Some(linked),
         html_path |-> html_path,
         pdf_path |-> IF pdf_generated THEN pdf_path ELSE None,
         pdf_bytes |-> IF pdf_generated THEN pdf_bytes ELSE None,
         timestamp |-> Some(timestamp), score_data |-> Some(score_data)])

\* lines 126-204: after scoring succeeded.  pdf says what the PDF step
\* (lines 142-170) does: "ok"; "render_fails", the headless browser raises
\* before line 160; or "write_fails", the PDF is rendered and pdf_generated
\* set, and writing the file at lines 163-165 raises.  Either failure ends
\* in the except clause of lines 167-170.
ScorecardSuccess(score_data, output_dir, save_files, include_pdf_link_in_html, pdf, timestamp) ==
    LET html_output == create_html_output(score_data)
        html_path == IF save_files
                     THEN Some(output_dir \o "/scorecard_" \o timestamp \o ".html")
                     ELSE None
        pdf_raised == pdf = "render_fails" \/ (pdf = "write_fails" /\ save_files)
        pdf_path == IF save_files /\ ~pdf_raised
                    THEN Some(output_dir \o "/scorecard_" \o timestamp \o ".pdf")
                    ELSE None
        pdf_bytes == IF ~pdf_raised THEN Some("%PDF") ELSE None
        pdf_generated == pdf # "render_fails"
        linked == IF include_pdf_link_in_html /\ pdf_generated /\ pdf_bytes # None
                  THEN [html_output EXCEPT !.pdf_download_link =
                            Some("scorecard_" \o timestamp \o ".pdf")]
                  ELSE html_output
    IN  Return([success |-> TRUE, error |-> None, html_content |-> Some(linked),
         html_path |-> html_path,
         pdf_path |-> IF pdf_generated THEN pdf_path ELSE None,
         pdf_bytes |-> IF pdf_generated THEN pdf_bytes ELSE None,
         timestamp |-> Some(timestamp), score_data |-> Some(score_data)])

\* lines 106-230
generate_scorecard(transcript_text, output_dir, save_files, include_pdf_link_in_html, llm, pdf, clock) ==
    IF transcript_text = <<>> \/ StripIsEmpty(transcript_text)
    THEN ScorecardFailure("Transcript text is empty or invalid")
    ELSE LET score == generate_score(transcript_text, llm) IN
        IF score.raised THEN ScorecardExcept(score)
        ELSE ScorecardSuccess(score.value[1], output_dir, save_files,
                              include_pdf_link_in_html, pdf, Strftime(clock))

\* lines 163-165 and 190-192: the files a call with this outcome has
\* written, each opened with mode 'w' or 'wb' (created or truncated)
generate_scorecard_writes(outcome) ==
    IF outcome.raised \/ ~outcome.value[1].success THEN {}
    ELSE LET result == outcome.value[1] IN
        {result.html_path[k] : k \in 1..Len(result.html_path)}
          \cup {result.pdf_path[k] : k \in 1..Len(result.pdf_path)}

\* the chat.completions.create calls generate_scorecard makes
generate_scorecard_llm_calls(transcript_text, llm) ==
    IF transcript_text = <<>> \/ StripIsEmpty(transcript_text)
    THEN 0
    ELSE generate_score_llm_calls(transcript_text, llm)

-----------------------------------------------------------------------------
(* The PDF service's /ws handler (main_server.py) *)

PDF_OUTPUT_DIR == "generated_pdfs"

HTML_OUTPUT_DIR == "outputs"

\* generate_scorecard is a coroutine function (async def) and line 92 calls
\* it without await: the call runs none of its body and yields a coroutine
\* object.
CallWithoutAwait == [kind |-> "coroutine"]

\* result['success'] at line 99
Subscript(obj, key) ==
    IF obj.kind = "coroutine"
    THEN Raise("TypeError", "'coroutine' object is not subscriptable")
    ELSE Return(obj[key])

\* lines 75-135: the messages the handler sends; received is None when the
\* peer disconnects before sending a transcript
pdf_websocket_endpoint(received) ==
    IF received = None THEN <<>>
    ELSE LET transcript_content == received[1]
             status1 == "Status: Transcript received. Starting generation..."
             status2 == "Status: Analyzing transcript with LLM..."
             result == CallWithoutAwait
             success == Subscript(result, "success")
         IN  IF transcript_content = <<>> \/ StripIsEmpty(transcript_content)
             THEN <<status1, "ERROR|Transcript is empty or invalid">>
             ELSE IF success.raised
             THEN <<status1, status2, "ERROR|An error occurred: " \o success.msg>>
             ELSE <<status1, status2>>

\* the chat.completions.create calls the handler makes: the coroutine that
\* would make one is never run
pdf_websocket_llm_calls(received) == 0

-----------------------------------------------------------------------------
(* The replies the LLM may give.  A well-formed reply names the seven      *)
(* rubric criteria in order, at one level, with the rubric's mark for it,  *)
(* and carries two feedback items on each side.  The replies considered    *)
(* are those at most MaxDeviant edits away from a well-formed one; an edit *)
(* changes the reply's shape, the length of the scores list, one aspect    *)
(* of one score object (or leaves it unrated: a level outside the rubric   *)
(* with a null mark), or one aspect of the feedback.                       *)

MaxDeviant == 1

Levels == {"Poor", "Basic", "Advanced"}

\* a level string the rubric does not know
OtherLevel == "Excellent"

\* a criterion name the rubric does not hold
OtherCriterion == "Problem solving"

MarkValues == {-1, 0, 1, 2, 4, 5}

RubricIndex(i) == ((i - 1) % Len(SCORING_RUBRIC)) + 1

RubricMark(i, level) ==
    LET item == SCORING_RUBRIC[RubricIndex(i)]
    IN  IF level = "Poor" THEN item.mark_poor
        ELSE IF level = "Basic" THEN item.mark_basic
        ELSE item.mark_advanced

WellFormedScore(i, level) ==
    [kind |-> "dict",
     keys |-> {required_fields[k] : k \in 1..Len(required_fields)},
     criterion |-> SCORING_RUBRIC[RubricIndex(i)].criterion,
     level |-> level,
     mark |-> RubricMark(i, level),
     justification |-> "Evidence from the transcript",
     mark_is_number |-> TRUE]

NonDictScore(kind) ==
    [kind |-> kind, keys |-> {}, criterion |-> "", level |-> "", mark |-> 0,
     justification |-> "", mark_is_number |-> TRUE]

FeedbackList(prefix, n) ==
    [kind |-> "list", items |-> [k \in 1..n |-> prefix \o ToString(k)]]

WellFormedFeedback ==
    [kind |-> "dict", positive |-> FeedbackList("strength ", 2),
     negative |-> FeedbackList("weakness ", 2)]

NoFeedback(kind) ==
    [kind |-> kind, positive |-> [kind |-> "missing", items |-> <<>>],
     negative |-> [kind |-> "missing", items |-> <<>>]]

WellFormedReply(level) ==
    [shape |-> "scores_list",
     scores |-> [i \in 1..ExpectedScores |-> WellFormedScore(i, level)],
     feedback |-> WellFormedFeedback]

BrokenReply(shape) ==
    [shape |-> shape, scores |-> <<>>, feedback |-> NoFeedback("missing")]

\* a score object with one required field left out
WithoutField(score, field) ==
    [score EXCEPT !.keys = @ \ {field},
                  ![field] = IF field = "mark" THEN 0 ELSE ""]

\* the ways one edit changes a reply
Edit(op, i, what, text, num) ==
    [op |-> op, i |-> i, what |-> what, text |-> text, num |-> num]

ScoreEditOps(i) ==
    {Edit("score", i, "kind", kind, 0) : kind \in {"number", "string"}}
      \cup {Edit("score", i, "drop", required_fields[k], 0) : k \in 1..Len(required_fields)}
      \cup {Edit("score", i, "criterion", which, 0) : which \in {"other", "next"}}
      \cup {Edit("score", i, "level", level, 0) : level \in Levels \cup {OtherLevel}}
      \cup {Edit("score", i, "mark", "", mark) : mark \in MarkValues}
      \cup {Edit("score", i, "mark", "null", 0), Edit("score", i, "unrated", "", 0)}

FeedbackEditOps ==
    {Edit("feedback", 0, "kind", kind, 0) : kind \in {"missing", "not_dict"}}
      \cup {Edit("feedback", 0, side, kind, 0) :
                side \in {"positive", "negative"}, kind \in {"missing", "not_list"}}
      \cup {Edit("feedback", 0, side, "list", n) :
                side \in {"positive", "negative"}, n \in {0, 1, 3}}

EditOps ==
    {Edit("none", 0, "", "", 0)}
      \cup {Edit("shape", 0, shape, "", 0) :
                shape \in {"invalid_json", "not_dict", "no_scores", "scores_not_list"}}
      \cup {Edit("truncate", n, "", "", 0) : n \in 0..(ExpectedScores - 1)}
      \cup {Edit("append", 0, "", "", 0)}
      \cup UNION {ScoreEditOps(i) : i \in 1..ExpectedScores}
      \cup FeedbackEditOps

EditScore(score, i, edit) ==
    IF score.kind # "dict" THEN score
    ELSE IF edit.what = "kind" THEN NonDictScore(edit.text)
    ELSE IF edit.what = "drop" THEN
        IF edit.text \in score.keys THEN WithoutField(score, edit.text) ELSE score
    ELSE IF edit.what = "unrated" THEN
        [score EXCEPT !.level = OtherLevel, !.mark = 0, !.mark_is_number = FALSE]
    ELSE IF edit.what \notin score.keys THEN score
    ELSE IF edit.what = "criterion" THEN
        [score EXCEPT !.criterion =
            IF edit.text = "other" THEN OtherCriterion
            ELSE SCORING_RUBRIC[RubricIndex(i + 1)].criterion]
    ELSE IF edit.what = "level" THEN [score EXCEPT !.level = edit.text]
    ELSE IF edit.text = "null" THEN [score EXCEPT !.mark = 0, !.mark_is_number = FALSE]
    ELSE [score EXCEPT !.mark = edit.num, !.mark_is_number = TRUE]

EditFeedback(feedback, edit) ==
    IF feedback.kind # "dict" THEN feedback
    ELSE IF edit.what = "kind" THEN NoFeedback(edit.text)
    ELSE LET prefix == IF edit.what = "positive" THEN "strength " ELSE "weakness "
             side == IF edit.text = "list" THEN FeedbackList(prefix, edit.num)
                     ELSE [kind |-> edit.text, items |-> <<>>]
         IN  [feedback EXCEPT ![edit.what] = side]

ApplyEdit(reply, edit) ==
    IF reply.shape # "scores_list" \/ edit.op = "none" THEN reply
    ELSE IF edit.op = "shape" THEN BrokenReply(edit.what)
    ELSE IF edit.op = "truncate" THEN
        IF edit.i < Len(reply.scores)
        THEN [reply EXCEPT !.scores = SubSeq(reply.scores, 1, edit.i)]
        ELSE reply
    ELSE IF edit.op = "append" THEN
        [reply EXCEPT !.scores =
            Append(reply.scores, WellFormedScore(Len(reply.scores) + 1, "Basic"))]
    ELSE IF edit.op = "score" THEN
        IF edit.i <= Len(reply.scores)
        THEN [reply EXCEPT !.scores[edit.i] = EditScore(reply.scores[edit.i], edit.i, edit)]
        ELSE reply
    ELSE [reply EXCEPT !.feedback = EditFeedback(reply.feedback, edit)]

RECURSIVE ApplyEdits(_, _)
ApplyEdits(reply, edits) ==
    IF edits = <<>> THEN reply
    ELSE ApplyEdits(ApplyEdit(reply, Head(edits)), Tail(edits))

WellFormedReplies == {WellFormedReply(level) : level \in Levels}

Replies ==
    {ApplyEdits(reply, edits) :
        reply \in WellFormedReplies, edits \in [1..MaxDeviant -> EditOps]}

NoReply == BrokenReply("invalid_json")

LLMOutcomesOver(replies) ==
    {[has_key |-> FALSE, call_ok |-> FALSE, reply |-> NoReply],
     [has_key |-> TRUE, call_ok |-> FALSE, reply |-> NoReply]}
      \cup {[has_key |-> TRUE, call_ok |-> TRUE, reply |-> reply] : reply \in replies}

\* what the LLM collaborator may do when handed transcript_text: anything
\* for a transcript with content; for a blank one the replies are limited
\* to the well-formed ones, to keep the state space small
AnyLLMOutcome == LLMOutcomesOver(Replies)

WellFormedLLMOutcome == LLMOutcomesOver(WellFormedReplies)

LLMOutcomes(transcript_text) ==
    IF StripIsEmpty(transcript_text) THEN WellFormedLLMOutcome ELSE AnyLLMOutcome

Transcripts ==
    {<<>>, <<" ", "\n">>, <<"I", " ", "u", "s", "e", "d", " ", "S", "Q", "L">>}

\* (save_files, include_pdf_link_in_html) as the callers that await
\* generate_scorecard pass them: the defaults, and generate_scorecard_simple
ScorecardOptions == {<<TRUE, TRUE>>, <<FALSE, FALSE>>}

\* what the PDF step of generate_scorecard may do (see ScorecardSuccess)
PdfBehaviours == {"ok", "render_fails", "write_fails"}

\* what the PDF renderer may do on a call of generate_scorecard: anything
\* when scoring succeeds; when it does not, the renderer is never reached
\* and one behaviour stands for all
PdfOutcomes(transcript_text, llm) ==
    IF StripIsEmpty(transcript_text) \/ generate_score(transcript_text, llm).raised
    THEN {"ok"}
    ELSE PdfBehaviours

MaxClock == 1

-----------------------------------------------------------------------------
(* The scoring service: one entry point is called at a time; its outcome   *)
(* stays visible until the caller has taken it.                            *)

InitScoring ==
    /\ now = 0
    /\ caller = "idle"
    /\ call_transcript = <<>>
    /\ llm_behaviour = None
    /\ llm_calls = 0
    /\ pdf_behaviour = None
    /\ call_options = None
    /\ score_outcome = None
    /\ scorecard_outcome = None
    /\ pdf_ws_sent = <<>>
    /\ files = {}

\* a second passes.  Every file name carries the second it was written in
\* (scorecard_api.py:121 and 137-138), so the files of earlier seconds are
\* out of reach of later calls and leave the view kept in files.
Tick ==
    /\ caller = "idle"
    /\ now < MaxClock
    /\ now' = now + 1
    /\ files' = {}
    /\ UNCHANGED <<caller, call_transcript, llm_behaviour, llm_calls, pdf_behaviour,
                   call_options, score_outcome, scorecard_outcome, pdf_ws_sent, session_vars>>

\* scoring_engine.generate_score(transcript_text)
CallGenerateScore ==
    /\ caller = "idle"
    /\ \E transcript_text \in Transcripts :
       \E behaviour \in LLMOutcomes(transcript_text) :
        /\ caller' = "generate_score"
        /\ call_transcript' = transcript_text
        /\ llm_behaviour' = Some(behaviour)
        /\ llm_calls' = generate_score_llm_calls(transcript_text, behaviour)
        /\ pdf_behaviour' = None
        /\ call_options' = None
        /\ score_outcome' = Some(generate_score(transcript_text, behaviour))
    /\ UNCHANGED <<now, scorecard_outcome, pdf_ws_sent, files, session_vars>>

\* scorecard_api.generate_scorecard(transcript_text, ...), awaited
CallGenerateScorecard ==
    /\ caller = "idle"
    /\ \E transcript_text \in Transcripts, options \in ScorecardOptions :
       \E behaviour \in LLMOutcomes(transcript_text) :
       \E pdf \in PdfOutcomes(transcript_text, behaviour) :
        /\ caller' = "generate_scorecard"
        /\ call_transcript' = transcript_text
        /\ llm_behaviour' = Some(behaviour)
        /\ pdf_behaviour' = Some(pdf)
        /\ call_options' = Some(options)
        /\ llm_calls' = generate_scorecard_llm_calls(transcript_text, behaviour)
        /\ scorecard_outcome' =
                Some(generate_scorecard(transcript_text, HTML_OUTPUT_DIR, options[1],
                                        options[2], behaviour, pdf, now))
        /\ files' = files \cup generate_scorecard_writes(scorecard_outcome'[1])
    /\ UNCHANGED <<now, score_outcome, pdf_ws_sent, session_vars>>

\* what the LLM and the PDF renderer would do for a connection of the PDF
\* service: nothing is asked of them when no transcript arrives; the LLM's
\* replies are limited to the well-formed ones, to keep the state space small
PdfWebsocketLLMOutcomes(received) ==
    IF received = None THEN {None} ELSE {Some(behaviour) : behaviour \in WellFormedLLMOutcome}

PdfWebsocketPdfOutcomes(received) ==
    IF received = None THEN {None} ELSE {Some(pdf) : pdf \in PdfBehaviours}

\* a connection to the PDF service's /ws endpoint, from accept to return
PdfWebsocket ==
    /\ caller = "idle"
    /\ \E received \in {None} \cup {Some(t) : t \in Transcripts} :
       \E behaviour \in PdfWebsocketLLMOutcomes(received), pdf \in PdfWebsocketPdfOutcomes(received) :
        /\ caller' = "pdf_websocket"
        /\ call_transcript' = IF received = None THEN <<>> ELSE received[1]
        /\ llm_behaviour' = behaviour
        /\ pdf_behaviour' = pdf
        /\ call_options' = None
        /\ llm_calls' = pdf_websocket_llm_calls(received)
        /\ pdf_ws_sent' = pdf_websocket_endpoint(received)
    /\ UNCHANGED <<now, score_outcome, scorecard_outcome, files, session_vars>>

\* the caller has taken the outcome
TakeOutcome ==
    /\ caller # "idle"
    /\ caller' = "idle"
    /\ call_transcript' = <<>>
    /\ llm_behaviour' = None
    /\ llm_calls' = 0
    /\ pdf_behaviour' = None
    /\ call_options' = None
    /\ score_outcome' = None
    /\ scorecard_outcome' = None
    /\ pdf_ws_sent' = <<>>
    /\ UNCHANGED <<now, files, session_vars>>

NextScoring ==
    \/ Tick
    \/ CallGenerateScore
    \/ CallGenerateScorecard
    \/ PdfWebsocket
    \/ TakeOutcome

-----------------------------------------------------------------------------
(* The question service's /ws session (question_generation/main.py)        *)
(*                                                                         *)
(* The transcript window, the candidate profile, the job offer and the     *)
(* company values are module globals, shared by every connection.  The     *)
(* handler awaits only in receive_text and in the sends, so each inbound   *)
(* message is handled in one step.                                         *)

\* the slice bound of TRANSCRIPT[-500:]
WindowSize == 500

\* LastChars cutting from the wrong end, as s[:n] would
LastChars_KeepsHead(s, n) == IF Len(s) <= n THEN s ELSE SubSeq(s, 1, n)

\* s[-n:] for n > 0
LastChars(s, n) == IF Len(s) <= n THEN s ELSE SubSeq(s, Len(s) - n + 1, Len(s))

\* str.startswith
StartsWith(s, prefix) ==
    /\ Len(s) >= Len(prefix)
    /\ SubSeq(s, 1, Len(prefix)) = prefix

Repeat(c, n) == [k \in 1..n |-> c]

MaxConns == 2

MaxSent == 1

MaxChunks == 2

Conns == 1..MaxConns

ChunkPayloads == {Repeat("a", 200), Repeat("b", 600)}

URL_PLAIN == <<"l", "i", "n", "k", "e", "d", "i", "n", ".", "c", "o", "m", "/", "i", "n", "/", "x">>

URL_HTTPS == <<"h", "t", "t", "p", "s", ":", "/", "/", "l", "i", "n", "k", "e", "d", "i", "n", ".", "c", "o", "m", "/", "i", "n", "/", "x">>

URL_HTTPBIN == <<"h", "t", "t", "p", "b", "i", "n", ".", "o", "r", "g", "/", "i", "n", "/", "x">>

HttpsPrefix == <<"h", "t", "t", "p", "s", ":", "/", "/">>

HttpPrefix == <<"h", "t", "t", "p">>

\* a CANDIDATE_INFOS payload; an absent key and an empty value are both
\* the empty text, which dict.get(...) or ... treats alike
Payload(candidates_linkedin, linkedin_url, job_description, job_offer, company_values) ==
    [CANDIDATES_LINKEDIN |-> candidates_linkedin, linkedin_url |-> linkedin_url,
     JOB_DESCRIPTION |-> job_description, job_offer |-> job_offer,
     COMPANY_VALUES |-> company_values]

CandidatePayloads ==
    {Payload(URL_PLAIN, <<>>, "Data analyst", "", "Curiosity"),
     Payload(<<>>, URL_HTTPS, "", "Data engineer", ""),
     Payload(<<>>, <<>>, "Data engineer", "", "Integrity"),
     Payload(URL_HTTPBIN, <<>>, "Data analyst", "", "Curiosity")}

NoPayload == Payload(<<>>, <<>>, "", "", "")

\* what extract_linkedin may return (response.answer)
Profiles == {"Recruiter memo"}

IgnoredEvents == {"GREEN_FLAG", "RED_FLAG", "DEFINE_TERM", "TODO_CREATED", "TICK_TODO"}

UnknownEvents == {"PING"}

\* json.dumps of the two message forms the handler sends
EventMessage(event, payload) == [key |-> "event", name |-> event, text |-> payload]
TypeMessage(type, message) == [key |-> "type", name |-> type, text |-> message]

\* a or b, for texts
PyOr(a, b) == IF Len(a) > 0 THEN a ELSE b

\* lines 59-62: the URL handed to extract_linkedin
NormalizeUrl(linkedin_url) ==
    IF ~StartsWith(linkedin_url, HttpPrefix)
    THEN HttpsPrefix \o linkedin_url
    ELSE linkedin_url

\* line 50: generate_questions_online(model, context) binds two of the three
\* parameters the function declares, so the call raises before its body runs
generate_questions_online_call ==
    Raise("TypeError", "generate_questions_online() missing 1 required positional argument: 'transcript'")

\* line 41: the message a handler read last: the connection it came on,
\* its event kind, and, for a TRANSCRIPT_CHUNK, whether the chat model would
\* answer a request made now (model.invoke returns)
Read(c, event, model_ok) == Some([conn |-> c, event |-> event, model_ok |-> model_ok])

\* what json.loads rejects
NotJson == "{not json"

\* what model.invoke(...).content may hold
Questions == {"Which SQL dialect did you use?"}

InitSession ==
    /\ last_event = None
    /\ model_invokes = 0
    /\ TRANSCRIPT = <<>>
    /\ CV = ""
    /\ JOB_OFFER = ""
    /\ COMPANY_VALUES = ""
    /\ CANDIDATE_INFOS = NoPayload
    /\ conn = [c \in Conns |-> "unconnected"]
    /\ sent = [c \in Conns |-> <<>>]
    /\ chunks_seen = 0
    /\ last_extract = None

\* line 35: websocket.accept()
Connect(c) ==
    /\ conn[c] = "unconnected"
    /\ conn' = [conn EXCEPT ![c] = "active"]
    /\ UNCHANGED <<TRANSCRIPT, CV, JOB_OFFER, COMPANY_VALUES, CANDIDATE_INFOS,
                   sent, chunks_seen, last_extract, last_event, model_invokes,
                   scoring_vars>>

\* lines 77-85: the catch-all handler: the error is sent if the peer is
\* still there, and the socket is closed
ExceptException(c, exc, peer_there) ==
    /\ sent' = [sent EXCEPT ![c] =
                    IF peer_there THEN Append(@, TypeMessage("error", exc.msg)) ELSE @]
    /\ conn' = [conn EXCEPT ![c] = "closed"]

\* lines 43-51: a TRANSCRIPT_CHUNK event
TranscriptChunk(c) ==
    /\ conn[c] = "active"
    /\ chunks_seen < MaxChunks
    /\ \E payload \in ChunkPayloads, peer_there \in BOOLEAN, model_ok \in BOOLEAN :
        LET QUESTION == generate_questions_online_call IN
        /\ last_event' = Read(c, "TRANSCRIPT_CHUNK", model_ok)
        /\ TRANSCRIPT' = LastChars(TRANSCRIPT \o payload, WindowSize)
        /\ chunks_seen' = chunks_seen + 1
        /\ IF QUESTION.raised
           THEN /\ ExceptException(c, QUESTION, peer_there)
                /\ UNCHANGED model_invokes
           ELSE /\ model_invokes' = model_invokes + 1
                /\ sent' = [sent EXCEPT ![c] =
                        Append(@, EventMessage("NEW_SUGGESTED_QUESTION", QUESTION.value[1]))]
                /\ UNCHANGED conn
    /\ UNCHANGED <<CV, JOB_OFFER, COMPANY_VALUES, CANDIDATE_INFOS, last_extract,
                   scoring_vars>>

\* lines 53-66: a CANDIDATE_INFOS event; extract_ok says whether the
\* profile search returned
CandidateInfos(c) ==
    /\ conn[c] = "active"
    /\ \E payload \in CandidatePayloads, extract_ok \in BOOLEAN,
          answer \in Profiles, peer_there \in BOOLEAN :
        LET linkedin_url == PyOr(payload.CANDIDATES_LINKEDIN, payload.linkedin_url)
            job_description == PyOr(payload.JOB_DESCRIPTION, payload.job_offer)
            company_values == payload.COMPANY_VALUES
            target == NormalizeUrl(linkedin_url)
        IN  /\ last_event' = Read(c, "CANDIDATE_INFOS", FALSE)
            /\ CANDIDATE_INFOS' = payload
            /\ IF Len(linkedin_url) = 0
               THEN UNCHANGED <<CV, JOB_OFFER, COMPANY_VALUES, last_extract, conn, sent>>
               ELSE /\ last_extract' = Some([url |-> linkedin_url, target |-> target])
                    /\ IF extract_ok
                       THEN /\ CV' = answer
                            /\ JOB_OFFER' = job_description
                            /\ COMPANY_VALUES' = company_values
                            /\ UNCHANGED <<conn, sent>>
                       ELSE /\ ExceptException(c, Raise("Exception", "Search failed"), peer_there)
                            /\ UNCHANGED <<CV, JOB_OFFER, COMPANY_VALUES>>
    /\ UNCHANGED <<TRANSCRIPT, chunks_seen, model_invokes, scoring_vars>>

\* IgnoredEvent answering as the handler answers an unknown kind
IgnoredEvent_ReportsUnknown(c) ==
    /\ conn[c] = "active"
    /\ \E event \in IgnoredEvents :
        /\ last_event' = Read(c, event, FALSE)
        /\ sent' = [sent EXCEPT ![c] =
                        Append(@, EventMessage("error", "Unknown event type"))]
    /\ UNCHANGED <<TRANSCRIPT, CV, JOB_OFFER, COMPANY_VALUES, CANDIDATE_INFOS,
                   conn, chunks_seen, last_extract, model_invokes, scoring_vars>>

\* line 68, first case: an event of a kind the handler passes over
IgnoredEvent(c) ==
    /\ conn[c] = "active"
    /\ \E event \in IgnoredEvents :
        /\ event \notin {"TRANSCRIPT_CHUNK", "CANDIDATE_INFOS"}
        /\ last_event' = Read(c, event, FALSE)
    /\ UNCHANGED <<TRANSCRIPT, CV, JOB_OFFER, COMPANY_VALUES, CANDIDATE_INFOS,
                   conn, sent, chunks_seen, last_extract, model_invokes, scoring_vars>>

\* UnknownEvent ending the session after the error is sent
UnknownEvent_EndsSession(c) ==
    /\ conn[c] = "active"
    /\ Len(sent[c]) < MaxSent
    /\ \E event \in UnknownEvents :
        /\ last_event' = Read(c, event, FALSE)
        /\ sent' = [sent EXCEPT ![c] =
                        Append(@, EventMessage("error", "Unknown event type"))]
    /\ conn' = [conn EXCEPT ![c] = "closed"]
    /\ UNCHANGED <<TRANSCRIPT, CV, JOB_OFFER, COMPANY_VALUES, CANDIDATE_INFOS,
                   chunks_seen, last_extract, model_invokes, scoring_vars>>

\* lines 68-70: an event of any other kind
UnknownEvent(c) ==
    /\ conn[c] = "active"
    /\ Len(sent[c]) < MaxSent
    /\ \E event \in UnknownEvents :
        /\ event \notin IgnoredEvents \cup {"TRANSCRIPT_CHUNK", "CANDIDATE_INFOS"}
        /\ last_event' = Read(c, event, FALSE)
        /\ sent' = [sent EXCEPT ![c] =
                        Append(@, EventMessage("error", "Unknown event type"))]
    /\ UNCHANGED <<TRANSCRIPT, CV, JOB_OFFER, COMPANY_VALUES, CANDIDATE_INFOS,
                   conn, chunks_seen, last_extract, model_invokes, scoring_vars>>

\* lines 74-76: the handler of json.JSONDecodeError: the error is sent
\* outside any try, so a send that fails leaves websocket_endpoint as an
\* exception ("raised"); otherwise the handler returns
ExceptJSONDecodeError(c, exc, peer_there) ==
    /\ sent' = [sent EXCEPT ![c] =
                    IF peer_there
                    THEN Append(@, TypeMessage("error", "Invalid JSON: " \o exc.msg))
                    ELSE @]
    /\ conn' = [conn EXCEPT ![c] = IF peer_there THEN "closed" ELSE "raised"]

\* lines 41 and 74-76: a message that json.loads rejects
BadJson(c) ==
    /\ conn[c] = "active"
    /\ last_event' = Read(c, NotJson, FALSE)
    /\ \E peer_there \in BOOLEAN :
        ExceptJSONDecodeError(c, Raise("JSONDecodeError", "Expecting value"), peer_there)
    /\ UNCHANGED <<TRANSCRIPT, CV, JOB_OFFER, COMPANY_VALUES, CANDIDATE_INFOS,
                   chunks_seen, last_extract, model_invokes, scoring_vars>>

\* lines 40 and 72-73: the peer disconnects while the handler waits
Disconnect(c) ==
    /\ conn[c] = "active"
    /\ conn' = [conn EXCEPT ![c] = "closed"]
    /\ UNCHANGED <<TRANSCRIPT, CV, JOB_OFFER, COMPANY_VALUES, CANDIDATE_INFOS,
                   sent, chunks_seen, last_extract, last_event, model_invokes,
                   scoring_vars>>

NextSession ==
    \E c \in Conns :
        \/ Connect(c)
        \/ TranscriptChunk(c)
        \/ CandidateInfos(c)
        \/ IgnoredEvent(c)
        \/ UnknownEvent(c)
        \/ BadJson(c)
        \/ Disconnect(c)

Init == InitScoring /\ InitSession

\* the scoring service alone
SpecScoring == Init /\ [][NextScoring]_vars

\* the question service alone
SpecSession == Init /\ [][NextSession]_vars

\* both services side by side; they share no state
Next == NextScoring \/ NextSession

Spec == Init /\ [][Next]_vars

-----------------------------------------------------------------------------
(* Properties of the scoring service *)

\* the LLM was reached and gave a reply
LLMReplied ==
    /\ llm_behaviour # None
    /\ llm_behaviour[1].has_key
    /\ llm_behaviour[1].call_ok

\* the reply's scores are a list
ReplyHasScoresList == LLMReplied /\ llm_behaviour[1].reply.shape = "scores_list"

SuppliedScores == llm_behaviour[1].reply.scores

SuppliedFeedback == llm_behaviour[1].reply.feedback

\* generate_score was called and returned a result
ScoreReturned ==
    /\ caller = "generate_score"
    /\ score_outcome # None
    /\ ~score_outcome[1].raised

\* generate_score was called and raised
ScoreRaised ==
    /\ caller = "generate_score"
    /\ score_outcome # None
    /\ score_outcome[1].raised

ReturnedData == score_outcome[1].value[1]

RoleBasedNames == {SCORING_RUBRIC[i].criterion : i \in 1..3}

CulturalFitNames == {SCORING_RUBRIC[i].criterion : i \in 4..7}

\* the maxScore the rubric gives a criterion name, 4 for a name it lacks
RubricMaxScore(name) == IF name \in CulturalFitNames THEN 2 ELSE 4

\* the mark the rubric gives a level on a scale topping at max
LevelMark(level, max) ==
    IF level = "Poor" THEN 0
    ELSE IF level = "Basic" THEN (IF max = 4 THEN 2 ELSE 1)
    ELSE max

\* the supplied scores are seven objects, each with the four required fields
SuppliedScoresValid ==
    /\ ReplyHasScoresList
    /\ Len(SuppliedScores) = 7
    /\ \A i \in 1..7 :
        /\ SuppliedScores[i].kind = "dict"
        /\ SuppliedScores[i].keys = {"criterion", "level", "mark", "justification"}

\* every supplied mark is a number
SuppliedMarksAreNumbers ==
    \A i \in 1..Len(SuppliedScores) : SuppliedScores[i].mark_is_number

\* C1: for every reply that passes validation generate_score returns a
\* result whose total_score lies within 0..20, whatever criterion names,
\* levels and marks the reply holds.
C1_TotalWithinRange ==
    (caller = "generate_score" /\ SuppliedScoresValid) =>
        /\ ScoreReturned
        /\ ReturnedData.total_score \in 0..20

\* C2: the total_score returned is the sum of the seven returned marks, and
\* each returned category's score is the mark of the entry at its position.
C2_TotalIsSumOfReturnedMarks ==
    ScoreReturned =>
        LET data == ReturnedData IN
        /\ Len(data.scores) = 7
        /\ Len(data.categories) = 7
        /\ data.total_score =
                data.scores[1].mark + data.scores[2].mark + data.scores[3].mark
              + data.scores[4].mark + data.scores[5].mark + data.scores[6].mark
              + data.scores[7].mark
        /\ \A i \in 1..7 : data.categories[i].score = data.scores[i].mark

\* a result whose marks are not the marks the LLM supplied
C2_Witness ==
    /\ ScoreReturned
    /\ \E i \in 1..7 : ReturnedData.scores[i].mark # SuppliedScores[i].mark

\* C3: for every entry whose level is Poor, Basic or Advanced the returned
\* mark is the one the level dictates on the criterion's scale (the rubric's
\* maxScore for an exact name, 4 for an unknown name), whatever mark the LLM
\* supplied.
C3_MarkFollowsLevel ==
    ScoreReturned =>
        \A i \in 1..7 :
            SuppliedScores[i].level \in {"Poor", "Basic", "Advanced"} =>
                /\ ReturnedData.scores[i].mark_is_number
                /\ ReturnedData.scores[i].mark =
                        LevelMark(SuppliedScores[i].level,
                                  RubricMaxScore(SuppliedScores[i].criterion))

\* an entry named outside the rubric, whose supplied mark was overwritten
\* on the default scale of 4
C3_Witness ==
    /\ ScoreReturned
    /\ \E i \in 1..7 :
        /\ SuppliedScores[i].criterion \notin RoleBasedNames \cup CulturalFitNames
        /\ SuppliedScores[i].level = "Advanced"
        /\ SuppliedScores[i].mark = 2
        /\ ReturnedData.scores[i].mark = 4

\* C4: a reply whose scores list has a length other than 7 makes
\* generate_score raise the schema violation naming both lengths; no result
\* is built.
C4_WrongLengthRejected ==
    (caller = "generate_score" /\ ReplyHasScoresList /\ Len(SuppliedScores) # 7) =>
        /\ ScoreRaised
        /\ score_outcome[1].type = "ValueError"
        /\ score_outcome[1].msg = "Expected 7 scores, got " \o ToString(Len(SuppliedScores))
        /\ score_outcome[1].value = None

\* a rejected reply with one score object too many
C4_Witness ==
    /\ ScoreRaised
    /\ ReplyHasScoresList
    /\ Len(SuppliedScores) = 8

\* C5: seven elements of which any one is not an object make generate_score
\* raise a schema violation; no result is built.
C5_NonObjectRejected ==
    (/\ caller = "generate_score"
     /\ ReplyHasScoresList
     /\ Len(SuppliedScores) = 7
     /\ \E i \in 1..7 : SuppliedScores[i].kind # "dict") =>
        /\ ScoreRaised
        /\ score_outcome[1].type = "ValueError"
        /\ score_outcome[1].value = None

\* a rejected reply whose only bare number is its last element
C5_Witness ==
    /\ ScoreRaised
    /\ ReplyHasScoresList
    /\ Len(SuppliedScores) = 7
    /\ SuppliedScores[7].kind = "number"
    /\ \A i \in 1..6 : SuppliedScores[i].kind = "dict"

\* C6: with seven valid score objects (each carrying the four fields, its
\* mark a number), feedback that is missing or is not a mapping never makes
\* generate_score fail, and the result's positive and negative feedback
\* each hold at least two items.
C6_FeedbackSelfHeals ==
    (/\ caller = "generate_score"
     /\ SuppliedScoresValid
     /\ SuppliedMarksAreNumbers
     /\ SuppliedFeedback.kind \in {"missing", "not_dict"}) =>
        /\ ScoreReturned
        /\ Len(ReturnedData.feedback.positive) >= 2
        /\ Len(ReturnedData.feedback.negative) >= 2

\* a result built from a reply whose feedback is not a mapping
C6_Witness ==
    /\ ScoreReturned
    /\ SuppliedFeedback.kind = "not_dict"

\* the entry point called failed for want of input, as each reports it
InvalidInputOutcome ==
    \/ /\ caller = "generate_score"
       /\ score_outcome[1].raised
       /\ score_outcome[1].type = "ValueError"
    \/ /\ caller = "generate_scorecard"
       /\ ~scorecard_outcome[1].raised
       /\ ~scorecard_outcome[1].value[1].success
    \/ /\ caller = "pdf_websocket"
       /\ pdf_ws_sent # <<>>
       /\ pdf_ws_sent[Len(pdf_ws_sent)] = "ERROR|Transcript is empty or invalid"

\* a transcript was handed to the entry point called
TranscriptHanded ==
    /\ caller # "idle"
    /\ ~(caller = "pdf_websocket" /\ pdf_ws_sent = <<>>)

\* C7: an empty or whitespace-only transcript makes every scoring entry
\* point fail with invalid input without the LLM being called.
C7_BlankTranscriptNeverReachesLLM ==
    (TranscriptHanded /\ StripIsEmpty(call_transcript)) =>
        /\ llm_calls = 0
        /\ InvalidInputOutcome

-----------------------------------------------------------------------------
(* Properties of the question service's session *)

Min(a, b) == IF a <= b THEN a ELSE b

\* the last m characters of text, one by one
LastOf(text, m) == [k \in 1..m |-> text[Len(text) - m + k]]

\* C9: a TRANSCRIPT_CHUNK event leaves the window equal to the last
\* min(500, n) characters of the previous window followed by the payload,
\* n being the length of the two together; the window never exceeds 500
\* characters.
C9_WindowIsTailOfConcatenation ==
    /\ [][chunks_seen' # chunks_seen =>
            \E payload \in ChunkPayloads :
                TRANSCRIPT' = LastOf(TRANSCRIPT \o payload,
                                     Min(500, Len(TRANSCRIPT) + Len(payload)))]_vars
    /\ [](Len(TRANSCRIPT) <= 500)

\* a full window that lost its oldest characters and ends with the newest
C9_Witness ==
    /\ chunks_seen = 2
    /\ Len(TRANSCRIPT) = 500
    /\ TRANSCRIPT[1] = "b"
    /\ TRANSCRIPT[500] = "a"

SchemeChars ==
    {"a", "b", "c", "d", "e", "f", "g", "h", "i", "j", "k", "l", "m", "n", "o", "p",
     "q", "r", "s", "t", "u", "v", "w", "x", "y", "z"}

\* the URL opens with a scheme: letters, then "://"
HasScheme(url) ==
    \E k \in 2..(Len(url) - 2) :
        /\ url[k] = ":"
        /\ url[k + 1] = "/"
        /\ url[k + 2] = "/"
        /\ \A j \in 1..(k - 1) : url[j] \in SchemeChars

\* C10: the target of the profile extraction is the URL itself when it has
\* a scheme, and "https://" followed by the URL when it has none.
C10_SchemePrefixedWhenAbsent ==
    last_extract # None =>
        last_extract[1].target =
            IF HasScheme(last_extract[1].url)
            THEN last_extract[1].url
            ELSE <<"h", "t", "t", "p", "s", ":", "/", "/">> \o last_extract[1].url

\* C11: a TRANSCRIPT_CHUNK event read while the chat model answers makes the
\* handler send exactly one NEW_SUGGESTED_QUESTION carrying the model's
\* question, and leaves the connection active.
C11_ChunkYieldsOneSuggestion ==
    [][\A c \in Conns :
        (TranscriptChunk(c) /\ last_event'[1].model_ok) =>
            /\ \E question \in Questions :
                sent'[c] = Append(sent[c], EventMessage("NEW_SUGGESTED_QUESTION", question))
            /\ conn'[c] = "active"]_vars

\* the profile URL a CANDIDATE_INFOS payload carries, empty when it has none
ProfileUrlOf(payload) == PyOr(payload.CANDIDATES_LINKEDIN, payload.linkedin_url)

\* C12: a CANDIDATE_INFOS event handled without error leaves the job offer
\* and the company values equal to the payload's, with or without a profile
\* URL, and the profile extraction is called exactly when a URL is present.
C12_OfferAndValuesAlwaysStored ==
    [][\A c \in Conns :
        (CandidateInfos(c) /\ conn'[c] = "active") =>
            LET payload == CANDIDATE_INFOS' IN
            /\ JOB_OFFER' = PyOr(payload.JOB_DESCRIPTION, payload.job_offer)
            /\ COMPANY_VALUES' = payload.COMPANY_VALUES
            /\ IF Len(ProfileUrlOf(payload)) > 0
               THEN /\ last_extract' # None
                    /\ last_extract'[1].url = ProfileUrlOf(payload)
               ELSE last_extract' = last_extract]_vars

\* C13: a CANDIDATE_INFOS event handled without error makes the handler
\* send an acknowledgement on that connection before it reads again.
C13_CandidateInfosAcknowledged ==
    [][\A c \in Conns :
        (CandidateInfos(c) /\ conn'[c] = "active") =>
            /\ Len(sent'[c]) = Len(sent[c]) + 1
            /\ SubSeq(sent'[c], 1, Len(sent[c])) = sent[c]]_vars

\* C14: a GREEN_FLAG, RED_FLAG, DEFINE_TERM, TODO_CREATED or TICK_TODO event
\* changes neither the transcript window, the candidate profile, the job
\* offer nor the company values, calls neither the chat model nor the
\* search, sends nothing, and leaves the connection active.
C14_IgnoredEventIsNoOp ==
    [][\A c \in Conns :
        IgnoredEvent(c) =>
            /\ UNCHANGED <<TRANSCRIPT, CV, JOB_OFFER, COMPANY_VALUES, CANDIDATE_INFOS>>
            /\ UNCHANGED <<model_invokes, last_extract>>
            /\ UNCHANGED sent
            /\ conn'[c] = "active"]_vars

\* an ignored event was read on a connection that is still active, with a
\* profile and a transcript window in place and nothing sent on it
C14_Witness ==
    /\ last_event # None
    /\ last_event[1].event \in IgnoredEvents
    /\ conn[last_event[1].conn] = "active"
    /\ sent[last_event[1].conn] = <<>>
    /\ CV # ""
    /\ TRANSCRIPT # <<>>

\* C15: an event of an unrecognized kind makes the handler send exactly one
\* error message, changes nothing of the session's context, and leaves the
\* connection active.
C15_UnknownEventReported ==
    [][\A c \in Conns :
        UnknownEvent(c) =>
            /\ sent'[c] = Append(sent[c], EventMessage("error", "Unknown event type"))
            /\ UNCHANGED <<TRANSCRIPT, CV, JOB_OFFER, COMPANY_VALUES, CANDIDATE_INFOS>>
            /\ UNCHANGED <<model_invokes, last_extract>>
            /\ conn'[c] = "active"]_vars

\* a connection that reported an unknown event and then handled a
\* CANDIDATE_INFOS event
C15_Witness ==
    \E c \in Conns :
        /\ sent[c] = <<EventMessage("error", "Unknown event type")>>
        /\ last_event = Read(c, "CANDIDATE_INFOS", FALSE)
        /\ conn[c] = "active"
        /\ CV # ""

\* the error report of line 76 reached the peer
ReportDelivered(c) == sent'[c] # sent[c]

\* C16: an inbound message that is not JSON is reported to the peer as an
\* error (the peer being there to take it) and the connection stays active,
\* so that later events are read.
C16_BadJsonKeepsSession ==
    [][\A c \in Conns :
        (BadJson(c) /\ ReportDelivered(c)) =>
            /\ Len(sent'[c]) = Len(sent[c]) + 1
            /\ sent'[c][Len(sent'[c])].name = "error"
            /\ conn'[c] = "active"]_vars

\* an event on c that writes the session context
ContextEvent(c) == TranscriptChunk(c) \/ CandidateInfos(c)

\* C17: while a session is active, no event received on another session
\* changes the transcript window, the candidate profile, the job offer or
\* the company values its next suggestion request is built from.
C17_NoCrossSessionMutation ==
    [][\A c, d \in Conns :
        (c # d /\ conn[d] = "active" /\ ContextEvent(c)) =>
            UNCHANGED <<TRANSCRIPT, CV, JOB_OFFER, COMPANY_VALUES>>]_vars

\* the suggestions among the messages sent on a connection
Suggestions(msgs) == SelectSeq(msgs, LAMBDA m : m.name = "NEW_SUGGESTED_QUESTION")

\* C18: each TRANSCRIPT_CHUNK read on a connection while the chat model
\* answers adds exactly one suggestion after those already sent on it, so
\* that the k-th suggestion answers the k-th chunk: none is dropped, merged
\* or moved.
C18_SuggestionsInChunkOrder ==
    [][\A c \in Conns :
        (TranscriptChunk(c) /\ last_event'[1].model_ok) =>
            /\ Len(sent'[c]) >= Len(sent[c])
            /\ SubSeq(sent'[c], 1, Len(sent[c])) = sent[c]
            /\ Len(Suggestions(sent'[c])) = Len(Suggestions(sent[c])) + 1]_vars

\* C19: a scorecard generation call writes its files under names no earlier
\* call has written, also when both calls read the same wall-clock second.
C19_OutputNamesNeverCollide ==
    [][(caller = "idle" /\ caller' = "generate_scorecard") =>
            generate_scorecard_writes(scorecard_outcome'[1]) \cap files = {}]_vars

\* the LLM was reached and the call itself failed
LLMCallFailed ==
    /\ llm_behaviour # None
    /\ llm_behaviour[1].has_key
    /\ ~llm_behaviour[1].call_ok

-----------------------------------------------------------------------------
(* Properties of the PDF service's /ws endpoint *)

\* the progress messages of main_server.py, lines 80, 89 and 105
StatusMessages ==
    {"Status: Transcript received. Starting generation...",
     "Status: Analyzing transcript with LLM...",
     "Status: Saving PDF..."}

\* the SUCCESS|... and ERROR|... messages among msgs
FinalMessages(msgs) == SelectSeq(msgs, LAMBDA m : m \notin StatusMessages)

\* a transcript with content reached the /ws handler, and both the LLM and
\* the PDF renderer would do their part for it
PdfGenerationWouldSucceed ==
    /\ caller = "pdf_websocket"
    /\ pdf_ws_sent # <<>>
    /\ ~StripIsEmpty(call_transcript)
    /\ ~generate_score(call_transcript, llm_behaviour[1]).raised
    /\ pdf_behaviour = Some("ok")

\* C21: a connection of the PDF service that sends a transcript with content
\* for which scoring and PDF rendering both succeed receives status messages
\* and then SUCCESS|...|/download/report_<timestamp>.pdf as its last message,
\* the named file having been written; and every connection that sent a
\* transcript receives exactly one final (SUCCESS or ERROR) message.
C21_SuccessReportedAfterPdfWritten ==
    /\ PdfGenerationWouldSucceed =>
        /\ pdf_ws_sent[Len(pdf_ws_sent)] =
              "SUCCESS|PDF generated successfully|/download/report_" \o Strftime(now) \o ".pdf"
        /\ (PDF_OUTPUT_DIR \o "/report_" \o Strftime(now) \o ".pdf") \in files
    /\ (caller = "pdf_websocket" /\ pdf_ws_sent # <<>>) =>
        /\ Len(FinalMessages(pdf_ws_sent)) = 1
        /\ pdf_ws_sent[Len(pdf_ws_sent)] \notin StatusMessages

-----------------------------------------------------------------------------
(* Properties of the score result *)

\* C22: a successful score result holds exactly 7 entries, one for each of
\* the 7 rubric criteria: every entry names a rubric criterion, and no
\* rubric criterion is named twice or left out.
C22_OneEntryPerCriterion ==
    ScoreReturned =>
        /\ Len(ReturnedData.scores) = 7
        /\ \A i \in 1..Len(ReturnedData.scores) :
              ReturnedData.scores[i].criterion \in RoleBasedNames \cup CulturalFitNames
        /\ \A name \in RoleBasedNames \cup CulturalFitNames :
              Cardinality({i \in 1..Len(ReturnedData.scores) :
                              ReturnedData.scores[i].criterion = name}) = 1

\* C23: in a successful score result every entry's level is Poor, Basic or
\* Advanced and its mark is the rubric's mark for that level on the entry's
\* criterion (0/2/4 for the role-based criteria, 0/1/2 for the cultural-fit
\* ones); level, criterion and justification are those of the LLM reply.
C23_LevelAndMarkFollowRubric ==
    ScoreReturned =>
        \A i \in 1..Len(ReturnedData.scores) :
            LET entry == ReturnedData.scores[i] IN
            /\ entry.level \in {"Poor", "Basic", "Advanced"}
            /\ entry.mark_is_number
            /\ entry.mark = LevelMark(entry.level, RubricMaxScore(entry.criterion))
            /\ entry.level = SuppliedScores[i].level
            /\ entry.criterion = SuppliedScores[i].criterion
            /\ entry.justification = SuppliedScores[i].justification

\* the marks of the seven entries returned
ReturnedMarks == [i \in 1..Len(ReturnedData.scores) |-> ReturnedData.scores[i].mark]

\* the grade string of a total
GradeOf(total_score) == ToString(total_score) \o "/20"

\* max_score, overall_grade and the full-marks scenario of C24
C24_GradeAndMaxScore ==
    /\ ReturnedData.max_score = 20
    /\ ReturnedData.overall_grade = GradeOf(ReturnedData.total_score)
    /\ ReturnedMarks = <<4, 4, 4, 2, 2, 2, 2>> =>
        /\ ReturnedData.total_score = 20
        /\ ReturnedData.overall_grade = "20/20"
        /\ ReturnedData.percentage = FloatOfInt(100)

JustAbove55 == [FloatOfInt(55) EXCEPT !.lo = @ + 1]

-----------------------------------------------------------------------------
(* Properties of the report and of generate_scorecard *)

\* generate_scorecard was called and reported a success
ScorecardSucceeded ==
    /\ caller = "generate_scorecard"
    /\ scorecard_outcome # None
    /\ ~scorecard_outcome[1].raised
    /\ scorecard_outcome[1].value[1].success

ScorecardResult == scorecard_outcome[1].value[1]

\* what the report of a successful call shows
Report == ScorecardResult.html_content[1]

\* C25: the report splits the 7 categories by position alone: the first
\* three, in order, make the Role-based Skills section and the last four, in
\* order, the Cultural Fit section, whatever each item's name or max_score;
\* every item is shown in exactly one section.
C25_SectionsSplitByPosition ==
    ScorecardSucceeded =>
        LET categories == ScorecardResult.score_data[1].categories IN
        /\ Len(categories) = 7
        /\ Len(Report.role_based_criteria) = 3
        /\ Len(Report.cultural_fit_criteria) = 4
        /\ \A i \in 1..3 : Report.role_based_criteria[i] = categories[i]
        /\ \A i \in 4..7 : Report.cultural_fit_criteria[i - 3] = categories[i]

\* a report whose Role-based Skills section shows an item that carries a
\* cultural-fit name and a max_score of 2
C25_Witness ==
    /\ ScorecardSucceeded
    /\ \E i \in 1..3 :
        /\ Report.role_based_criteria[i].name \in CulturalFitNames
        /\ Report.role_based_criteria[i].max_score = 2

FieldOrder == <<"criterion", "level", "mark", "justification">>

\* the supplied entry at position i lacks a required field
LacksField(i) == \E k \in 1..4 : FieldOrder[k] \notin SuppliedScores[i].keys

\* seven objects were supplied, at least one of them lacking a required field
SomeEntryLacksField ==
    /\ caller = "generate_score"
    /\ ReplyHasScoresList
    /\ Len(SuppliedScores) = 7
    /\ \A i \in 1..7 : SuppliedScores[i].kind = "dict"
    /\ \E i \in 1..7 : LacksField(i)

ExpectedFeedback(supplied) ==
    IF supplied.kind # "list"
    THEN <<"Feedback generation pending", "Feedback generation pending">>
    ELSE IF Len(supplied.items) = 0
    THEN <<"Feedback generation pending", "Feedback generation pending">>
    ELSE IF Len(supplied.items) = 1
    THEN <<supplied.items[1], "Feedback generation pending">>
    ELSE supplied.items

\* C27: when the reply's feedback is a mapping, each of positive and
\* negative in the result is the reply's list followed by as many
\* placeholders as it is short of two items, the reply's list unchanged when
\* it holds two or more, and two placeholders when the key is missing or
\* holds something other than a list.
C27_FeedbackPaddedNotTruncated ==
    (ScoreReturned /\ SuppliedFeedback.kind = "dict") =>
        /\ ReturnedData.feedback.positive = ExpectedFeedback(SuppliedFeedback.positive)
        /\ ReturnedData.feedback.negative = ExpectedFeedback(SuppliedFeedback.negative)

\* a result that kept all three items of the reply's negative feedback
C27_Witness ==
    /\ ScoreReturned
    /\ SuppliedFeedback.kind = "dict"
    /\ Len(SuppliedFeedback.negative.items) = 3
    /\ ReturnedData.feedback.negative = <<"weakness 1", "weakness 2", "weakness 3">>
    /\ Len(ReturnedData.feedback.positive) = 2

\* C28: when an inbound message is not JSON and the error report cannot be
\* sent to the peer, the failed send is swallowed: websocket_endpoint returns
\* without an exception and the session is closed.
C28_FailedReportSwallowed ==
    [][\A c \in Conns :
        (BadJson(c) /\ ~ReportDelivered(c)) => conn'[c] = "closed"]_vars

\* the session on c is over: its handler returned or ended by an exception
SessionEnded(c) == conn[c] \in {"closed", "raised"}

\* C29: the session context does not outlive its session: a session opened
\* after another one ended, and while no other session is open, starts with
\* an empty transcript window, candidate profile, job offer and company
\* values.
C29_LaterSessionStartsEmpty ==
    [][\A c \in Conns :
        (/\ Connect(c)
         /\ \E d \in Conns : SessionEnded(d)
         /\ \A d \in Conns : conn[d] # "active") =>
            /\ TRANSCRIPT' = <<>>
            /\ CV' = ""
            /\ JOB_OFFER' = ""
            /\ COMPANY_VALUES' = ""]_vars

\* generate_scorecard was called with a transcript that scoring accepts, and
\* its PDF step (scorecard_api.py:142-165) raised: the renderer failed, or
\* the rendered PDF could not be written to the file the call asked for
PdfStepRaised ==
    /\ caller = "generate_scorecard"
    /\ scorecard_outcome # None
    /\ ~StripIsEmpty(call_transcript)
    /\ ~generate_score(call_transcript, llm_behaviour[1]).raised
    /\ \/ pdf_behaviour = Some("render_fails")
       \/ pdf_behaviour = Some("write_fails") /\ call_options[1][1]

====
